---- MODULE Spec2Model ----
(***************************************************************************)
(* Model of runtime/ioqueues.c: the bootstrap of the shared-memory queues  *)
(* between the runtime and the IOKernel.                                   *)
(*                                                                         *)
(*   ioqueues_init(threads)      one setup thread: lock and barrier init,  *)
(*                               identity, two mappings, queue carving     *)
(*   ioqueues_init_thread()      every worker: claim an index under qlock, *)
(*                               bind three queues, wait on the barrier    *)
(*   ioqueues_register_iokernel  header population and the handshake       *)
(***************************************************************************)
EXTENDS Integers, Sequences, FiniteSets, TLC

(***************************************************************************)
(* Bounds of the model.                                                    *)
(***************************************************************************)
\* largest thread count passed to ioqueues_init, and largest value of maxks
MaxThreads == 2
\* number of huge-page aligned addresses the control region may be mapped at
NumBases == 2
\* largest thread count of the runs that only set up the layout
MaxLayoutThreads == 6

(***************************************************************************)
(* Program constants.                                                      *)
(***************************************************************************)
PACKET_QUEUE_MCOUNT == 8192
COMMAND_QUEUE_MCOUNT == 8192

\* Constants of the headers the file includes (base/, iokernel/, net/).
CACHE_LINE_SIZE == 64
PGSIZE_2MB == 2097152
MBUF_DEFAULT_LEN == 2048
SIZEOF_LRPC_MSG == 16
SIZEOF_UINT32 == 4
SIZEOF_CONTROL_HDR == 32
SIZEOF_THREAD_SPEC == 72
SIZEOF_MEM_KEY == 4
SIZEOF_SIZE_T == 8
SIZEOF_ETH_ADDR == 6
ETH_ADDR_GROUP == 1
ETH_ADDR_LOCAL_ADMIN == 2
MAP_FAILED == -1
NULL == 0

\* errno values a failing system call may leave (EPIPE, ECONNREFUSED)
ErrnoCodes == {32, 111}

\* The fixed well-known key of the ingress region, as a key value distinct
\* from every generated one (a generated key is a tuple of four bytes).
INGRESS_MBUF_SHM_KEY == <<"INGRESS_MBUF_SHM_KEY">>
INGRESS_MBUF_SHM_SIZE == 16 * PGSIZE_2MB

(***************************************************************************)
(* Sets the inputs are drawn from.                                         *)
(***************************************************************************)
\* worker threads of the process; with a thread count below MaxThreads there
\* are more workers than configured threads, so a call beyond the count happens
Workers == 1 .. MaxThreads
\* slots of the iok.threads array
ThreadSlots == 0 .. MaxLayoutThreads
\* addresses the mapping service may return for the control region
ControlBases == {b * 16 * PGSIZE_2MB : b \in 1 .. NumBases}
\* address the mapping service returns for the ingress region
IngressBase == 256 * PGSIZE_2MB
\* first byte read from /dev/urandom (0xAA, 0x01); the rest is fixed
EntropyFirstBytes == {170, 1}
EntropyTail == <<187, 204, 221, 238, 255>>

(***************************************************************************)
(* Pure helpers.                                                           *)
(***************************************************************************)
\* align_up(x, a) for a power of two a
align_up(x, a) == ((x + a - 1) \div a) * a

\* x & ~m and x | m for a one-bit mask m
BitIsSet(x, m) == (x \div m) % 2 = 1
AndNot(x, m) == IF BitIsSet(x, m) THEN x - m ELSE x
Or(x, m) == IF BitIsSet(x, m) THEN x ELSE x + m

\* a fixup with the two masks exchanged
MacFixup_swapped(bytes) ==
    [bytes EXCEPT ![1] = Or(AndNot(bytes[1], ETH_ADDR_LOCAL_ADMIN), ETH_ADDR_GROUP)]

\* the two bit operations of generate_random_mac on the bytes read
MacFixup(bytes) ==
    [bytes EXCEPT ![1] = Or(AndNot(bytes[1], ETH_ADDR_GROUP), ETH_ADDR_LOCAL_ADMIN)]

\* iok.key = *(mem_key_t *)(&netcfg.mac): the first sizeof(mem_key_t) bytes
KeyOfMac(mac) == SubSeq(mac, 1, SIZEOF_MEM_KEY)

\* bytes one ring takes: message slots, then the write-back word
QueueBytes(msg_count) ==
    align_up(SIZEOF_LRPC_MSG * msg_count, CACHE_LINE_SIZE)
        + align_up(SIZEOF_UINT32, CACHE_LINE_SIZE)

\* a calculator that leaves out the egress buffers
calculate_shm_space_no_pool(thread_count) ==
    LET hdr == align_up(SIZEOF_CONTROL_HDR + SIZEOF_THREAD_SPEC * thread_count,
                        CACHE_LINE_SIZE)
        pkt == 2 * QueueBytes(PACKET_QUEUE_MCOUNT) * thread_count
        cmd == QueueBytes(COMMAND_QUEUE_MCOUNT) * thread_count
    IN  align_up(hdr + pkt + cmd, PGSIZE_2MB)

\* a calculator that rounds to cache lines where huge pages are meant
calculate_shm_space_cache_rounded(thread_count) ==
    LET hdr == align_up(SIZEOF_CONTROL_HDR + SIZEOF_THREAD_SPEC * thread_count,
                        CACHE_LINE_SIZE)
        pkt == 2 * QueueBytes(PACKET_QUEUE_MCOUNT) * thread_count
        cmd == QueueBytes(COMMAND_QUEUE_MCOUNT) * thread_count
        ctl == align_up(hdr + pkt + cmd, CACHE_LINE_SIZE)
    IN  align_up(ctl + MBUF_DEFAULT_LEN * PACKET_QUEUE_MCOUNT, CACHE_LINE_SIZE)

calculate_shm_space(thread_count) ==
    LET hdr == align_up(SIZEOF_CONTROL_HDR + SIZEOF_THREAD_SPEC * thread_count,
                        CACHE_LINE_SIZE)
        pkt == 2 * QueueBytes(PACKET_QUEUE_MCOUNT) * thread_count
        cmd == QueueBytes(COMMAND_QUEUE_MCOUNT) * thread_count
        ctl == align_up(hdr + pkt + cmd, PGSIZE_2MB)
    IN  align_up(ctl + MBUF_DEFAULT_LEN * PACKET_QUEUE_MCOUNT, PGSIZE_2MB)

\* the assertion of ptr_to_shmptr: [ptr, ptr+len) lies inside the region
InRegion(r, ptr, len) == ptr >= r.base /\ ptr + len <= r.base + r.len
\* its result: the offset of ptr in the region
ptr_to_shmptr(r, ptr, len) == ptr - r.base

\* a queue_spec and a thread_spec before carving (zeroed globals)
NoQueue == [msg_buf |-> 0, wb |-> 0, msg_count |-> 0]
NoThreadSpec == [rxq |-> NoQueue, txpktq |-> NoQueue, txcmdq |-> NoQueue]
NoRegion == [base |-> NULL, len |-> 0]
QueueNames == <<"rxq", "txpktq", "txcmdq">>
\* packet queues carved with half the capacity of the command queue
QueueMcount_small_packets(q) ==
    IF q = 3 THEN COMMAND_QUEUE_MCOUNT ELSE COMMAND_QUEUE_MCOUNT \div 2
QueueMcount(q) == IF q = 3 THEN COMMAND_QUEUE_MCOUNT ELSE PACKET_QUEUE_MCOUNT

(***************************************************************************)
(* State.                                                                  *)
(***************************************************************************)
VARIABLES
    threads,          \* argument of ioqueues_init
    maxks,            \* the runtime's global maxks, read by ioqueues_init
    ncallers,         \* workers 1..ncallers call ioqueues_init_thread
    errno,            \* errno of the thread running the system calls
    aborted,          \* "" or the fatal check that ended the process
    init_pc,          \* position of the setup thread in ioqueues_init
    init_ret,         \* <<return value>> of ioqueues_init, <<>> before
    netcfg_mac,       \* netcfg.mac
    iok_key,          \* iok.key
    tx_region,        \* netcfg.tx_region: the control region
    rx_region,        \* netcfg.rx_region: the ingress region
    shm,              \* mappings the process holds: set of [base, key, len]
    calls,            \* system calls issued so far, in order: <<name, args>>
    iok_thread_count, \* iok.thread_count
    iok_threads,      \* iok.threads[]
    iok_tx_buf,       \* iok.tx_buf (an address)
    iok_tx_len,       \* iok.tx_len
    iok_next_free,    \* iok.next_free (an offset)
    iok_fd,           \* iok.fd
    ptr,              \* the carving cursor of ioqueues_shm_setup (an address)
    carve_i,          \* loop index i of ioqueues_shm_setup
    carve_q,          \* which of the three ioqueue_alloc calls is next (1..3)
    qlock,            \* 0, or the worker holding the spinlock
    nrqs,             \* the shared index counter
    barrier,          \* [parties, count]: the pthread barrier
    entered,          \* workers that have called pthread_barrier_wait
    pc,               \* position of each worker in ioqueues_init_thread
    ts,               \* index of the thread_spec each worker took (-1: none)
    handles,          \* myk()->rxq, txpktq, txcmdq of each worker
    reg_pc,           \* position in ioqueues_register_iokernel
    reg_ret,          \* its <<return value>>, <<>> before
    hdr,              \* the control header at tx_region.base
    sock,             \* state of the socket iok.fd names
    wire              \* what the peer of the socket has been sent, in order

envVars == <<threads, maxks, ncallers>>
setupVars == <<init_pc, init_ret, netcfg_mac, iok_key, rx_region,
               iok_thread_count, iok_threads, iok_tx_buf, iok_tx_len,
               iok_next_free, ptr, carve_i, carve_q, barrier>>
threadVars == <<qlock, nrqs, entered, pc, ts, handles>>
regVars == <<reg_pc, reg_ret, iok_fd, hdr, sock, wire>>
vars == <<envVars, setupVars, threadVars, regVars, errno, aborted, tx_region,
          shm, calls>>

\* a header field holds <<>> until it is written, then <<value>>
Unwritten == <<>>
NoHandle == [role |-> "none", spec |-> NoQueue]
NoHandles == [rxq |-> NoHandle, txpktq |-> NoHandle, txcmdq |-> NoHandle]
NoHdr == [magic |-> Unwritten, thread_count |-> Unwritten, mac |-> Unwritten,
          sched_cfg |-> Unwritten, threads |-> Unwritten]

\* the file-scope state before ioqueues_init
InitState ==
    /\ errno = 0
    /\ aborted = ""
    /\ init_pc = "start"
    /\ init_ret = <<>>
    /\ netcfg_mac = <<>>
    /\ iok_key = <<>>
    /\ tx_region = NoRegion
    /\ rx_region = NoRegion
    /\ shm = {}
    /\ calls = <<>>
    /\ iok_thread_count = 0
    /\ iok_threads = [i \in ThreadSlots |-> NoThreadSpec]
    /\ iok_tx_buf = NULL
    /\ iok_tx_len = 0
    /\ iok_next_free = 0
    /\ iok_fd = 0
    /\ ptr = NULL
    /\ carve_i = 0
    /\ carve_q = 1
    /\ qlock = 0
    /\ nrqs = 0
    /\ barrier = [parties |-> 0, count |-> 0]
    /\ entered = {}
    /\ pc = [w \in Workers |-> "idle"]
    /\ ts = [w \in Workers |-> -1]
    /\ handles = [w \in Workers |-> NoHandles]
    /\ reg_pc = "idle"
    /\ reg_ret = <<>>
    /\ hdr = NoHdr
    /\ sock = "none"
    /\ wire = <<>>

Init ==
    /\ threads \in 1 .. MaxThreads
    /\ maxks \in 1 .. MaxThreads
    /\ ncallers \in 0 .. MaxThreads
    /\ InitState

\* runs of the setup thread alone, over a wider range of thread counts
LayoutInit ==
    /\ threads \in 1 .. MaxLayoutThreads
    /\ maxks = threads
    /\ ncallers = 0
    /\ InitState

Running == aborted = ""

(***************************************************************************)
(* The shared-memory mapping service (base/mem.c).                         *)
(***************************************************************************)
MappedKeys == {m.key : m \in shm}
\* results mem_map_shm may give: failure, or an address; creation that is
\* exclusive fails while the key is held
mem_map_shm_results(key, exclusive, bases) ==
    {MAP_FAILED} \cup (IF exclusive /\ key \in MappedKeys THEN {} ELSE bases)
\* the mapping table after mem_unmap_shm(base)
mem_unmap_shm(table, base) == {m \in table : m.base # base}

(***************************************************************************)
(* ioqueues_init and ioqueues_shm_setup: the setup thread.                 *)
(***************************************************************************)
\* the party count ioqueues_init gives the barrier
BarrierParties == maxks

\* spin_lock_init(&qlock); pthread_barrier_init(&barrier, NULL, maxks);
\* then the call of ioqueues_shm_setup(threads)
ioqueues_init ==
    /\ Running
    /\ init_pc = "start"
    /\ qlock' = 0
    /\ barrier' = [parties |-> BarrierParties, count |-> 0]
    /\ init_pc' = "generate_random_mac"
    /\ UNCHANGED <<envVars, init_ret, netcfg_mac, iok_key, rx_region,
                   iok_thread_count, iok_threads, iok_tx_buf, iok_tx_len,
                   iok_next_free, ptr, carve_i, carve_q, nrqs, entered, pc, ts,
                   handles, regVars, errno, aborted, tx_region, shm, calls>>

\* generate_random_mac and the key derived from it
generate_random_mac ==
    /\ Running
    /\ init_pc = "generate_random_mac"
    /\ \/ \* open("/dev/urandom") fails
          /\ \E e \in ErrnoCodes : errno' = e
          /\ calls' = Append(calls, <<"open">>)
          /\ init_ret' = <<-1>>
          /\ init_pc' = "returned"
          /\ UNCHANGED <<netcfg_mac, iok_key>>
       \/ \* read returns fewer bytes than the address has
          /\ calls' = calls \o <<<<"open">>, <<"read", <<>>>>,
                                  <<"close", "urandom">>>>
          /\ init_ret' = <<-1>>
          /\ init_pc' = "returned"
          /\ UNCHANGED <<netcfg_mac, iok_key, errno>>
       \/ \E b \in EntropyFirstBytes :
          LET mac == MacFixup(<<b>> \o EntropyTail) IN
          /\ calls' = calls \o <<<<"open">>, <<"read", <<b>> \o EntropyTail>>,
                                  <<"close", "urandom">>>>
          /\ netcfg_mac' = mac
          /\ iok_key' = KeyOfMac(mac)
          /\ init_pc' = "map_control"
          /\ UNCHANGED <<init_ret, errno>>
    /\ UNCHANGED <<envVars, rx_region, iok_thread_count, iok_threads,
                   iok_tx_buf, iok_tx_len, iok_next_free, ptr, carve_i, carve_q,
                   barrier, threadVars, regVars, aborted, tx_region, shm>>

\* lines 113-119: the control region
map_control ==
    /\ Running
    /\ init_pc = "map_control"
    /\ LET shm_len == calculate_shm_space(threads) IN
       \E base \in mem_map_shm_results(iok_key, TRUE, ControlBases) :
          /\ tx_region' = [base |-> base, len |-> shm_len]
          /\ calls' = Append(calls, <<"map_control", iok_key, shm_len>>)
          /\ IF base = MAP_FAILED
             THEN /\ \E e \in ErrnoCodes : errno' = e
                  /\ init_ret' = <<-1>>
                  /\ init_pc' = "returned"
                  /\ UNCHANGED shm
             ELSE /\ shm' = shm \cup {[base |-> base, key |-> iok_key,
                                       len |-> shm_len]}
                  /\ init_pc' = "map_ingress"
                  /\ UNCHANGED <<init_ret, errno>>
    /\ UNCHANGED <<envVars, netcfg_mac, iok_key, rx_region, iok_thread_count,
                   iok_threads, iok_tx_buf, iok_tx_len, iok_next_free, ptr,
                   carve_i, carve_q, barrier, threadVars, regVars, aborted>>

\* a failure branch that returns without the unmap
IngressFailureUnwind_none == shm

\* what the failure branch of the ingress mapping leaves mapped (line 127)
IngressFailureUnwind == mem_unmap_shm(shm, tx_region.base)

\* lines 122-136: the ingress region, then the start of the carving
map_ingress ==
    /\ Running
    /\ init_pc = "map_ingress"
    /\ \E base \in mem_map_shm_results(INGRESS_MBUF_SHM_KEY, FALSE, {IngressBase}) :
          /\ IF base = MAP_FAILED
             THEN /\ \E e \in ErrnoCodes : errno' = e
                  /\ rx_region' = [rx_region EXCEPT !.base = base]
                  /\ shm' = IngressFailureUnwind
                  /\ calls' = calls \o <<<<"map_ingress">>,
                                          <<"unmap", tx_region.base>>>>
                  /\ init_ret' = <<-1>>
                  /\ init_pc' = "returned"
                  /\ UNCHANGED <<iok_thread_count, ptr>>
             ELSE /\ rx_region' = [base |-> base, len |-> INGRESS_MBUF_SHM_SIZE]
                  /\ calls' = Append(calls, <<"map_ingress">>)
                  /\ shm' = shm \cup {[base |-> base, key |-> INGRESS_MBUF_SHM_KEY,
                                       len |-> INGRESS_MBUF_SHM_SIZE]}
                  /\ iok_thread_count' = threads
                  /\ ptr' = align_up(tx_region.base + SIZEOF_CONTROL_HDR
                                        + SIZEOF_THREAD_SPEC * threads,
                                     CACHE_LINE_SIZE)
                  /\ init_pc' = "carve"
                  /\ UNCHANGED <<init_ret, errno>>
    /\ UNCHANGED <<envVars, netcfg_mac, iok_key, iok_threads, iok_tx_buf,
                   iok_tx_len, iok_next_free, carve_i, carve_q, barrier,
                   threadVars, regVars, aborted, tx_region>>

(***************************************************************************)
(* The queue carver.                                                       *)
(***************************************************************************)
\* a carver that records addresses instead of offsets
ioqueue_alloc_addresses(r, p, msg_count) ==
    LET p2 == p + align_up(SIZEOF_LRPC_MSG * msg_count, CACHE_LINE_SIZE) IN
    [q |-> [msg_buf |-> p, wb |-> p2, msg_count |-> msg_count],
     ptr |-> p2 + align_up(SIZEOF_UINT32, CACHE_LINE_SIZE),
     ok |-> /\ InRegion(r, p, SIZEOF_LRPC_MSG * msg_count)
            /\ InRegion(r, p2, SIZEOF_UINT32)]

\* a carver that does not advance the cursor past the write-back word
ioqueue_alloc_no_wb_advance(r, p, msg_count) ==
    LET p2 == p + align_up(SIZEOF_LRPC_MSG * msg_count, CACHE_LINE_SIZE) IN
    [q |-> [msg_buf |-> ptr_to_shmptr(r, p, SIZEOF_LRPC_MSG * msg_count),
            wb |-> ptr_to_shmptr(r, p2, SIZEOF_UINT32),
            msg_count |-> msg_count],
     ptr |-> p2,
     ok |-> /\ InRegion(r, p, SIZEOF_LRPC_MSG * msg_count)
            /\ InRegion(r, p2, SIZEOF_UINT32)]

\* ioqueue_alloc(r, q, &ptr, msg_count): the queue_spec written, the cursor
\* after it, and whether both assertions of ptr_to_shmptr held
ioqueue_alloc(r, p, msg_count) ==
    LET p2 == p + align_up(SIZEOF_LRPC_MSG * msg_count, CACHE_LINE_SIZE) IN
    [q |-> [msg_buf |-> ptr_to_shmptr(r, p, SIZEOF_LRPC_MSG * msg_count),
            wb |-> ptr_to_shmptr(r, p2, SIZEOF_UINT32),
            msg_count |-> msg_count],
     ptr |-> p2 + align_up(SIZEOF_UINT32, CACHE_LINE_SIZE),
     ok |-> /\ InRegion(r, p, SIZEOF_LRPC_MSG * msg_count)
            /\ InRegion(r, p2, SIZEOF_UINT32)]

\* lines 138-143: one ioqueue_alloc call of the loop
carve_queue ==
    /\ Running
    /\ init_pc = "carve"
    /\ carve_i < threads
    /\ LET a == ioqueue_alloc(tx_region, ptr, QueueMcount(carve_q)) IN
       IF a.ok
       THEN /\ iok_threads' = [iok_threads EXCEPT
                                 ![carve_i][QueueNames[carve_q]] = a.q]
            /\ ptr' = a.ptr
            /\ carve_q' = IF carve_q = 3 THEN 1 ELSE carve_q + 1
            /\ carve_i' = IF carve_q = 3 THEN carve_i + 1 ELSE carve_i
            /\ UNCHANGED aborted
       ELSE /\ aborted' = "ptr_to_shmptr"
            /\ UNCHANGED <<iok_threads, ptr, carve_q, carve_i>>
    /\ UNCHANGED <<envVars, init_pc, init_ret, netcfg_mac, iok_key, rx_region,
                   iok_thread_count, iok_tx_buf, iok_tx_len, iok_next_free,
                   barrier, threadVars, regVars, errno, tx_region, shm, calls>>

\* lines 145-154: the transmit buffer pool, the next-free marker, return 0
carve_finish ==
    /\ Running
    /\ init_pc = "carve"
    /\ carve_i >= threads
    /\ LET pool == align_up(ptr, PGSIZE_2MB)
           len == MBUF_DEFAULT_LEN * PACKET_QUEUE_MCOUNT
       IN  IF InRegion(tx_region, pool, len) /\ InRegion(tx_region, pool + len, 0)
           THEN /\ iok_tx_buf' = pool
                /\ iok_tx_len' = len
                /\ ptr' = pool + len
                /\ iok_next_free' = ptr_to_shmptr(tx_region, pool + len, 0)
                /\ init_ret' = <<0>>
                /\ init_pc' = "returned"
                /\ UNCHANGED aborted
           ELSE /\ aborted' = "ptr_to_shmptr"
                /\ UNCHANGED <<iok_tx_buf, iok_tx_len, ptr, iok_next_free,
                               init_ret, init_pc>>
    /\ UNCHANGED <<envVars, netcfg_mac, iok_key, rx_region, iok_thread_count,
                   iok_threads, carve_i, carve_q, barrier, threadVars, regVars,
                   errno, tx_region, shm, calls>>

(***************************************************************************)
(* ioqueues_init_thread: the workers.                                      *)
(***************************************************************************)
InitDone == init_pc = "returned" /\ init_ret = <<0>>

\* a lock that excludes nobody
LockFree_always(w) == TRUE

\* spin_lock may be taken when nobody holds the lock
LockFree(w) == qlock = 0

\* line 233: spin_lock(&qlock), on entry of ioqueues_init_thread
spin_lock(w) ==
    /\ Running
    /\ InitDone
    /\ w <= ncallers
    /\ pc[w] = "idle"
    /\ LockFree(w)
    /\ qlock' = w
    /\ pc' = [pc EXCEPT ![w] = "claim"]
    /\ UNCHANGED <<envVars, setupVars, nrqs, entered, ts, handles, regVars,
                   errno, aborted, tx_region, shm, calls>>

\* the assertion compiled out
ClaimAllowed_unchecked == TRUE

\* the condition of the assertion of line 234
ClaimAllowed == nrqs < iok_thread_count

\* lines 234-235: the assertion, and the read of nrqs in iok.threads[nrqs++]
claim_index(w) ==
    /\ Running
    /\ pc[w] = "claim"
    /\ IF ClaimAllowed
       THEN /\ ts' = [ts EXCEPT ![w] = nrqs]
            /\ pc' = [pc EXCEPT ![w] = "increment"]
            /\ UNCHANGED aborted
       ELSE /\ aborted' = "assert(nrqs < iok.thread_count)"
            /\ UNCHANGED <<ts, pc>>
    /\ UNCHANGED <<envVars, setupVars, qlock, nrqs, entered, handles, regVars,
                   errno, tx_region, shm, calls>>

\* lines 235-236: the write of nrqs in nrqs++, then spin_unlock(&qlock)
increment_unlock(w) ==
    /\ Running
    /\ pc[w] = "increment"
    /\ nrqs' = ts[w] + 1
    /\ qlock' = 0
    /\ pc' = [pc EXCEPT ![w] = "bind_rxq"]
    /\ UNCHANGED <<envVars, setupVars, entered, ts, handles, regVars, errno,
                   aborted, tx_region, shm, calls>>

\* shm_init_lrpc_in / shm_init_lrpc_out (iokernel/shm.h): 0 when the
\* descriptor names storage inside the region, an error otherwise
shm_init_lrpc(r, spec) ==
    IF /\ spec.msg_count > 0
       /\ spec.msg_buf + SIZEOF_LRPC_MSG * spec.msg_count <= r.len
       /\ spec.wb + SIZEOF_UINT32 <= r.len
    THEN 0 ELSE -22

\* lines 238-245: one binding and its BUG_ON
Bind(w, at, qname, role, next) ==
    /\ Running
    /\ pc[w] = at
    /\ LET spec == iok_threads[ts[w]][qname] IN
       IF shm_init_lrpc(tx_region, spec) = 0
       THEN /\ handles' = [handles EXCEPT ![w][qname] =
                              [role |-> role, spec |-> spec]]
            /\ pc' = [pc EXCEPT ![w] = next]
            /\ UNCHANGED aborted
       ELSE /\ aborted' = "BUG_ON(ret)"
            /\ UNCHANGED <<handles, pc>>
    /\ UNCHANGED <<envVars, setupVars, qlock, nrqs, entered, ts, regVars, errno,
                   tx_region, shm, calls>>

bind_rxq(w) == Bind(w, "bind_rxq", "rxq", "in", "bind_txpktq")
\* a transmit-packet queue bound with the inbound call
bind_txpktq_as_consumer(w) ==
    Bind(w, "bind_txpktq", "txpktq", "in", "bind_txcmdq")
bind_txpktq(w) == Bind(w, "bind_txpktq", "txpktq", "out", "bind_txcmdq")
bind_txcmdq(w) == Bind(w, "bind_txcmdq", "txcmdq", "out", "barrier")

\* line 247: pthread_barrier_wait. The arrival that completes the party
\* count releases every waiter and resets the barrier.
barrier_wait(w) ==
    /\ Running
    /\ pc[w] = "barrier"
    /\ entered' = entered \cup {w}
    /\ IF barrier.count + 1 = barrier.parties
       THEN /\ barrier' = [barrier EXCEPT !.count = 0]
            /\ pc' = [v \in Workers |->
                        IF v = w \/ pc[v] = "waiting" THEN "released" ELSE pc[v]]
       ELSE /\ barrier' = [barrier EXCEPT !.count = barrier.count + 1]
            /\ pc' = [pc EXCEPT ![w] = "waiting"]
    /\ UNCHANGED <<envVars, init_pc, init_ret, netcfg_mac, iok_key, rx_region,
                   iok_thread_count, iok_threads, iok_tx_buf, iok_tx_len,
                   iok_next_free, ptr, carve_i, carve_q, qlock, nrqs, ts,
                   handles, regVars, errno, aborted, tx_region, shm, calls>>

\* line 249: return 0
init_thread_return(w) ==
    /\ Running
    /\ pc[w] = "released"
    /\ pc' = [pc EXCEPT ![w] = "done"]
    /\ UNCHANGED <<envVars, setupVars, qlock, nrqs, entered, ts, handles,
                   regVars, errno, aborted, tx_region, shm, calls>>

(***************************************************************************)
(* ioqueues_register_iokernel.                                             *)
(***************************************************************************)
CONTROL_HDR_MAGIC == "CONTROL_HDR_MAGIC"
SCHED_PRIORITY_NORMAL == "SCHED_PRIORITY_NORMAL"

regFrame == <<envVars, setupVars, threadVars, aborted>>

\* the caller has returned from its own ioqueues_init_thread
RegCallable == \E w \in Workers : pc[w] = "done"

\* line 176: hdr->magic, on entry
reg_hdr_magic ==
    /\ Running
    /\ reg_pc = "idle"
    /\ RegCallable
    /\ hdr' = [hdr EXCEPT !.magic = <<CONTROL_HDR_MAGIC>>]
    /\ reg_pc' = "hdr_thread_count"
    /\ UNCHANGED <<regFrame, reg_ret, iok_fd, sock, wire, errno, tx_region,
                   shm, calls>>

\* line 177: hdr->thread_count
reg_hdr_thread_count ==
    /\ Running
    /\ reg_pc = "hdr_thread_count"
    /\ hdr' = [hdr EXCEPT !.thread_count = <<iok_thread_count>>]
    /\ reg_pc' = "hdr_mac"
    /\ UNCHANGED <<regFrame, reg_ret, iok_fd, sock, wire, errno, tx_region,
                   shm, calls>>

\* line 178: hdr->mac
reg_hdr_mac ==
    /\ Running
    /\ reg_pc = "hdr_mac"
    /\ hdr' = [hdr EXCEPT !.mac = <<netcfg_mac>>]
    /\ reg_pc' = "hdr_sched_cfg"
    /\ UNCHANGED <<regFrame, reg_ret, iok_fd, sock, wire, errno, tx_region,
                   shm, calls>>

\* lines 180-183: hdr->sched_cfg
reg_hdr_sched_cfg ==
    /\ Running
    /\ reg_pc = "hdr_sched_cfg"
    /\ hdr' = [hdr EXCEPT !.sched_cfg =
                  <<[priority |-> SCHED_PRIORITY_NORMAL,
                     max_cores |-> iok_thread_count,
                     congestion_latency_us |-> 0,
                     scaleout_latency_us |-> 0]>>]
    /\ reg_pc' = "hdr_threads"
    /\ UNCHANGED <<regFrame, reg_ret, iok_fd, sock, wire, errno, tx_region,
                   shm, calls>>

\* the descriptors the memcpy of lines 185-186 copies
CopiedThreads == [i \in 0 .. (iok_thread_count - 1) |-> iok_threads[i]]

\* a registration that moves on without copying the descriptors
reg_hdr_threads_skipped ==
    /\ Running
    /\ reg_pc = "hdr_threads"
    /\ reg_pc' = "socket"
    /\ UNCHANGED <<regFrame, reg_ret, iok_fd, hdr, sock, wire, errno, tx_region,
                   shm, calls>>

\* lines 185-186: memcpy(hdr->threads, iok.threads, ...)
reg_hdr_threads ==
    /\ Running
    /\ reg_pc = "hdr_threads"
    /\ hdr' = [hdr EXCEPT !.threads = <<CopiedThreads>>]
    /\ reg_pc' = "socket"
    /\ UNCHANGED <<regFrame, reg_ret, iok_fd, sock, wire, errno, tx_region,
                   shm, calls>>

\* lines 194-198: socket()
reg_socket ==
    /\ Running
    /\ reg_pc = "socket"
    /\ calls' = Append(calls, <<"socket">>)
    /\ \/ /\ iok_fd' = 3
          /\ sock' = "open"
          /\ reg_pc' = "connect"
          /\ UNCHANGED errno
       \/ /\ iok_fd' = -1
          /\ \E e \in ErrnoCodes : errno' = e
          /\ reg_pc' = "fail"
          /\ UNCHANGED sock
    /\ UNCHANGED <<regFrame, reg_ret, hdr, wire, tx_region, shm>>

\* lines 200-204: connect()
reg_connect ==
    /\ Running
    /\ reg_pc = "connect"
    /\ calls' = Append(calls, <<"connect">>)
    /\ \/ /\ sock' = "connected"
          /\ reg_pc' = "write_key"
          /\ UNCHANGED errno
       \/ /\ \E e \in ErrnoCodes : errno' = e
          /\ reg_pc' = "fail_close_fd"
          /\ UNCHANGED sock
    /\ UNCHANGED <<regFrame, reg_ret, iok_fd, hdr, wire, tx_region, shm>>

\* results of write(fd, buf, n): an error, a short count, the full count
WriteResults(n) == {-1, n \div 2, n}

\* one write of the handshake and the test of its result
RegWrite(at, field, val, n, next) ==
    /\ Running
    /\ reg_pc = at
    /\ calls' = Append(calls, <<"write", field>>)
    /\ \E ret \in WriteResults(n) :
          /\ wire' = IF ret > 0
                     THEN Append(wire, [field |-> field, val |-> val,
                                        sent |-> ret, size |-> n])
                     ELSE wire
          /\ IF ret = -1
             THEN \E e \in ErrnoCodes : errno' = e
             ELSE UNCHANGED errno
          /\ IF ret # n
             THEN /\ reg_pc' = "fail_close_fd"
                  /\ UNCHANGED reg_ret
             ELSE /\ reg_pc' = IF next = "returned" THEN "returned" ELSE next
                  /\ reg_ret' = IF next = "returned" THEN <<0>> ELSE reg_ret
    /\ UNCHANGED <<regFrame, iok_fd, hdr, sock, tx_region, shm>>

\* a handshake that sends the length first
reg_write_key_sends_len ==
    RegWrite("write_key", "len", tx_region.len, SIZEOF_SIZE_T, "write_len")

\* lines 206-210: write(iok.fd, &iok.key, sizeof(iok.key))
reg_write_key == RegWrite("write_key", "key", iok_key, SIZEOF_MEM_KEY, "write_len")

\* lines 212-218: write(iok.fd, &netcfg.tx_region.len, ...), then return 0
reg_write_len ==
    RegWrite("write_len", "len", tx_region.len, SIZEOF_SIZE_T, "returned")

\* lines 220-221: close(iok.fd)
reg_fail_close_fd ==
    /\ Running
    /\ reg_pc = "fail_close_fd"
    /\ calls' = Append(calls, <<"close", "sock">>)
    /\ sock' = "closed"
    /\ reg_pc' = "fail"
    /\ UNCHANGED <<regFrame, reg_ret, iok_fd, hdr, wire, errno, tx_region, shm>>

\* a cleanup that forgets the ingress region
ioqueues_shm_cleanup_control_only == mem_unmap_shm(shm, tx_region.base)

\* ioqueues_shm_cleanup: the mapping table after both unmaps
ioqueues_shm_cleanup ==
    mem_unmap_shm(mem_unmap_shm(shm, tx_region.base), rx_region.base)

\* the value of line 224
RegErrorValue == 0 - errno

\* lines 222-224: ioqueues_shm_cleanup(); return -errno
reg_fail ==
    /\ Running
    /\ reg_pc = "fail"
    /\ calls' = calls \o <<<<"unmap", tx_region.base>>, <<"unmap", rx_region.base>>>>
    /\ shm' = ioqueues_shm_cleanup
    /\ reg_ret' = <<RegErrorValue>>
    /\ reg_pc' = "returned"
    /\ UNCHANGED <<regFrame, iok_fd, hdr, sock, wire, errno, tx_region>>

(***************************************************************************)
(* The specification.                                                      *)
(***************************************************************************)
SetupStep ==
    \/ ioqueues_init
    \/ generate_random_mac
    \/ map_control
    \/ map_ingress
    \/ carve_queue
    \/ carve_finish

WorkerStep(w) ==
    \/ spin_lock(w)
    \/ claim_index(w)
    \/ increment_unlock(w)
    \/ bind_rxq(w)
    \/ bind_txpktq(w)
    \/ bind_txcmdq(w)
    \/ barrier_wait(w)
    \/ init_thread_return(w)

RegisterStep ==
    \/ reg_hdr_magic
    \/ reg_hdr_thread_count
    \/ reg_hdr_mac
    \/ reg_hdr_sched_cfg
    \/ reg_hdr_threads
    \/ reg_socket
    \/ reg_connect
    \/ reg_write_key
    \/ reg_write_len
    \/ reg_fail_close_fd
    \/ reg_fail

Next ==
    \/ SetupStep
    \/ \E w \in Workers : WorkerStep(w)
    \/ RegisterStep

Spec == Init /\ [][Next]_vars

\* ioqueues_init alone, for the claims about the layout
LayoutSpec == LayoutInit /\ [][SetupStep]_vars

\* every thread that can take a step eventually takes one
FairSpec ==
    /\ Spec
    /\ WF_vars(SetupStep)
    /\ \A w \in Workers : WF_vars(WorkerStep(w))
    /\ WF_vars(RegisterStep)

(***************************************************************************)
(* Properties.                                                             *)
(***************************************************************************)
PastBarrier(w) == pc[w] \in {"released", "done"}
\* workers whose index claim is complete (counter incremented, lock released)
Claimed == {w \in Workers : pc[w] \notin {"idle", "claim", "increment"}}
\* workers holding an index, the one between read and increment included
Holding == {w \in Workers : pc[w] \notin {"idle", "claim"}}
ControlMapped == \E m \in shm : m.base = tx_region.base
IngressMapped == \E m \in shm : m.base = rx_region.base
SockCloses == {i \in 1 .. Len(calls) : calls[i][1] = "close" /\ calls[i][2] = "sock"}
\* both handshake values went out in full
HandshakeSent ==
    /\ Len(wire) = 2
    /\ \A i \in 1 .. 2 : wire[i].sent = wire[i].size
RegReturned == reg_pc = "returned"

\* C1: no worker is past the barrier wait of ioqueues_init_thread unless all
\* T = threads workers have entered it: the count of workers that reached the
\* barrier equals T whenever a worker is observed past it.
C1_NoReturnBeforeAllEntered ==
    ncallers = threads =>
        \A w \in Workers : PastBarrier(w) => Cardinality(entered) = threads

\* C2: the indices claimed so far are exactly 0 .. nrqs-1, no two workers
\* hold the same index, and once T workers have claimed the set is 0 .. T-1.
C2_DistinctIndices ==
    /\ \A v, w \in Holding : v # w => ts[v] # ts[w]
    /\ {ts[w] : w \in Claimed} = 0 .. (nrqs - 1)
    /\ Cardinality(Claimed) = threads =>
          {ts[w] : w \in Claimed} = 0 .. (threads - 1)

C2_Witness ==
    /\ threads = MaxThreads
    /\ Cardinality(Claimed) = threads
    /\ {ts[w] : w \in Claimed} = 0 .. (threads - 1)

\* C3: when ioqueues_register_iokernel has returned after a failure, neither
\* region is mapped; after a failure of connect or of a write the socket has
\* been closed; after a failure of socket() no close was issued.
C3_FailureUnwinds ==
    RegReturned =>
        /\ (iok_fd = -1) =>
              /\ ~ControlMapped /\ ~IngressMapped
              /\ SockCloses = {}
        /\ (iok_fd # -1 /\ ~HandshakeSent) =>
              /\ ~ControlMapped /\ ~IngressMapped
              /\ sock = "closed"
              /\ Cardinality(SockCloses) = 1

\* the second write failed after the key went out in full
C3_Witness ==
    /\ RegReturned
    /\ Len(wire) = 1 /\ wire[1].field = "key" /\ wire[1].sent = wire[1].size
    /\ sock = "closed"
    /\ shm = {}

\* C4: ioqueues_register_iokernel returns 0 exactly when socket, connect and
\* both writes succeeded in full; on every failure the value is non-zero.
C4_ZeroOnlyOnSuccess ==
    RegReturned => (reg_ret = <<0>> <=> (sock = "connected" /\ HandshakeSent))

\* C5: when the ingress mapping fails after the control region was mapped,
\* ioqueues_shm_setup returns with neither region mapped and with the
\* generated key free for another exclusive creation.
IngressFailed == init_pc = "returned" /\ rx_region.base = MAP_FAILED

C5_IngressFailureReleasesControl ==
    IngressFailed =>
        /\ init_ret = <<-1>>
        /\ shm = {}
        /\ iok_key \notin MappedKeys
        /\ mem_map_shm_results(iok_key, TRUE, ControlBases) # {MAP_FAILED}

C5_Witness ==
    /\ IngressFailed
    /\ tx_region.base \in ControlBases
    /\ \E i \in 1 .. Len(calls) : calls[i][1] = "unmap"

\* every field of the control header has been written, the descriptor
\* table with one entry for each of the T threads
HdrComplete ==
    /\ \A f \in {"magic", "thread_count", "mac", "sched_cfg", "threads"} :
          Len(hdr[f]) = 1
    /\ DOMAIN hdr.threads[1] = 0 .. (threads - 1)
\* the socket exists, or a connection or a write has been attempted
ChannelTouched ==
    \/ sock # "none"
    \/ wire # <<>>
    \/ \E i \in 1 .. Len(calls) : calls[i][1] \in {"socket", "connect", "write"}

\* C6: every field of the control header is written before the connection is
\* opened and before any handshake byte is sent: the peer has never received
\* anything while a header field is unwritten.
C6_HeaderBeforeHandshake == ChannelTouched => HdrComplete

C6_Witness == wire # <<>> /\ HdrComplete /\ threads = MaxThreads

\* the control mapping call: its key and its length
ControlMapCalls == {i \in 1 .. Len(calls) : calls[i][1] = "map_control"}

\* C7: the channel carries at most two values, first the key and then the
\* length, the length only after the key went out in full; the key is the one
\* the control region was mapped with, the length is the mapped length,
\* calculate_shm_space(T).
C7_WireContract ==
    /\ Len(wire) <= 2
    /\ Len(wire) >= 1 =>
          /\ wire[1].field = "key"
          /\ wire[1].size = SIZEOF_MEM_KEY
          /\ \E i \in ControlMapCalls : calls[i][2] = wire[1].val
    /\ Len(wire) = 2 =>
          /\ wire[1].sent = wire[1].size
          /\ wire[2].field = "len"
          /\ wire[2].size = SIZEOF_SIZE_T
          /\ \E i \in ControlMapCalls : calls[i][3] = wire[2].val
          /\ wire[2].val = calculate_shm_space(threads)
    /\ (RegReturned /\ sock = "connected") => HandshakeSent

C7_Witness == RegReturned /\ HandshakeSent /\ sock = "connected"

\* C8: a call of ioqueues_init_thread after T indices were claimed ends in the
\* failed assertion: the counter never exceeds T, no worker takes or binds a
\* descriptor at an index >= T, and no such call returns.
C8_NoClaimBeyondCount ==
    /\ nrqs <= threads
    /\ \A w \in Workers : ts[w] < threads
    /\ Cardinality(Holding) <= threads
    /\ \A w \in Workers :
          (pc[w] = "claim" /\ nrqs >= threads /\ InitDone) =>
              ~ENABLED (claim_index(w) /\ aborted' = "")

C8_Witness ==
    /\ aborted = "assert(nrqs < iok.thread_count)"
    /\ nrqs = threads
    /\ Cardinality(Claimed) = threads

\* C9: after a successful ioqueues_init(T), with each of the T workers calling
\* ioqueues_init_thread once, every one of them eventually returns.
C9_AllWorkersReturn ==
    (InitDone /\ ncallers = threads) ~> (\A w \in 1 .. threads : pc[w] = "done")

\* the byte ranges of the carved descriptors, as <<first, past-the-end>>
CarvedSlots == {i \in ThreadSlots : iok_threads[i].rxq.msg_count > 0}
MsgRange(q) == <<q.msg_buf, q.msg_buf + SIZEOF_LRPC_MSG * q.msg_count>>
WbRange(q) == <<q.wb, q.wb + SIZEOF_UINT32>>
CarvedRanges ==
    UNION {{<<i, n, "msg", MsgRange(iok_threads[i][QueueNames[n]])>>,
            <<i, n, "wb", WbRange(iok_threads[i][QueueNames[n]])>>} :
           <<i, n>> \in {x \in CarvedSlots \X (1 .. 3) :
                            iok_threads[x[1]][QueueNames[x[2]]].msg_count > 0}}
Disjoint(a, b) == a[2] <= b[1] \/ b[2] <= a[1]
HeaderRange == <<0, SIZEOF_CONTROL_HDR + threads * SIZEOF_THREAD_SPEC>>
PoolRange == <<iok_tx_buf - tx_region.base, iok_tx_buf - tx_region.base + iok_tx_len>>

\* C10: the message buffers and write-back slots of the carved descriptors
\* are pairwise disjoint, disjoint from the header and descriptor table and
\* from the transmit buffer pool, and inside [0, calculate_shm_space(T)).
C10_CarvedStorageDisjoint ==
    /\ \A a, b \in CarvedRanges : a # b => Disjoint(a[4], b[4])
    /\ \A a \in CarvedRanges :
          /\ a[4][1] < a[4][2]
          /\ Disjoint(a[4], HeaderRange)
          /\ 0 <= a[4][1] /\ a[4][2] <= calculate_shm_space(threads)
    /\ InitDone =>
          /\ Cardinality(CarvedRanges) = 6 * threads
          /\ \A a \in CarvedRanges : Disjoint(a[4], PoolRange)
          /\ Disjoint(HeaderRange, PoolRange)
          /\ 0 <= PoolRange[1] /\ PoolRange[2] <= calculate_shm_space(threads)

C10_Witness ==
    /\ InitDone
    /\ threads = MaxLayoutThreads
    /\ Cardinality(CarvedRanges) = 6 * threads

\* the smallest multiple of a that is not below x
RoundedUp(x, a) == x + ((a - (x % a)) % a)
\* one ring as the layout rules size it: the message slots and the
\* write-back word, each rounded up to a cache line
RingSize(capacity) ==
    RoundedUp(capacity * SIZEOF_LRPC_MSG, CACHE_LINE_SIZE)
        + RoundedUp(SIZEOF_UINT32, CACHE_LINE_SIZE)
\* header, T descriptors and the 3*T rings of T threads
ControlPayload(T) ==
    SIZEOF_CONTROL_HDR + T * SIZEOF_THREAD_SPEC
        + T * (2 * RingSize(PACKET_QUEUE_MCOUNT) + RingSize(COMMAND_QUEUE_MCOUNT))
\* the control region length has been computed (line 113-114)
LengthComputed == ControlMapCalls # {}

\* C11: the length calculate_shm_space(T) gives the control region is a
\* multiple of the huge-page size, exceeds header + T descriptors + all 3*T
\* rings, and is non-decreasing in T.
C11_LengthAlignedAndSufficient ==
    LengthComputed =>
        /\ tx_region.len % PGSIZE_2MB = 0
        /\ tx_region.len > ControlPayload(threads)
        /\ \A t \in 1 .. (MaxLayoutThreads + 1) :
              /\ t <= threads => calculate_shm_space(t) <= tx_region.len
              /\ t >= threads => calculate_shm_space(t) >= tx_region.len

C11_Witness ==
    /\ InitDone
    /\ threads = MaxLayoutThreads
    /\ tx_region.len > ControlPayload(threads)

\* /dev/urandom gave the bytes AA:BB:CC:DD:EE:FF
EntropyIsAA ==
    \E i \in 1 .. Len(calls) :
        calls[i][1] = "read" /\ calls[i][2] = <<170, 187, 204, 221, 238, 255>>
IdentityA9 == <<169, 187, 204, 221, 238, 255>>
IdentityAA == <<170, 187, 204, 221, 238, 255>>

\* C12 as stated: with entropy AA:BB:CC:DD:EE:FF the identity is
\* A9:BB:CC:DD:EE:FF, and this exact value is the key of the control region
\* and the identity field of the header.
C12_IdentityIsA9 ==
    EntropyIsAA =>
        /\ netcfg_mac = IdentityA9
        /\ \A i \in ControlMapCalls : calls[i][2] = IdentityA9
        /\ Len(hdr.mac) = 1 => hdr.mac[1] = IdentityA9

\* C12 as amended: with entropy AA:BB:CC:DD:EE:FF the identity is
\* AA:BB:CC:DD:EE:FF (the group bit of 0xAA is clear and its local-admin bit
\* set already); this value is the identity field of the header, and the key
\* of the control region, also the key sent, is its leading
\* sizeof(mem_key_t) bytes AA:BB:CC:DD.
C12_IdentityIsAA ==
    EntropyIsAA =>
        /\ netcfg_mac = IdentityAA
        /\ \A i \in ControlMapCalls : calls[i][2] = <<170, 187, 204, 221>>
        /\ \A m \in shm : m.base = tx_region.base => m.key = <<170, 187, 204, 221>>
        /\ Len(hdr.mac) = 1 => hdr.mac[1] = IdentityAA
        /\ \A i \in 1 .. Len(wire) :
              wire[i].field = "key" => wire[i].val = <<170, 187, 204, 221>>

C12_Witness ==
    /\ EntropyIsAA
    /\ Len(hdr.mac) = 1
    /\ wire # <<>>
    /\ ControlMapped

UnmapCalls == {i \in 1 .. Len(calls) : calls[i][1] = "unmap"}

\* C13: when ioqueues_register_iokernel has returned success (0), the
\* connection is open and both regions are mapped: no close and no unmap
\* was issued.
C13_SuccessKeepsChannelAndRegions ==
    (RegReturned /\ reg_ret = <<0>>) =>
        /\ sock = "connected"
        /\ ControlMapped /\ IngressMapped
        /\ SockCloses = {}
        /\ UnmapCalls = {}

\* C14: the barrier ioqueues_init_thread waits on is initialised with a party
\* count equal to the thread count passed to ioqueues_init, the value stored
\* as iok.thread_count.
C14_BarrierSizedByThreadCount ==
    init_pc # "start" =>
        /\ barrier.parties = threads
        /\ InitDone => barrier.parties = iok_thread_count

\* worker w has bound its three queues
AllBound(w) ==
    \A q \in {"rxq", "txpktq", "txcmdq"} : handles[w][q].role # "none"

\* C15: with ioqueues_register_iokernel called only by a thread whose own
\* ioqueues_init_thread has returned, all T threads have completed their three
\* bindings before the first header write of the registration.
C15_BindingsBeforeRegistration ==
    (reg_pc # "idle" /\ ncallers = threads) =>
        \A w \in 1 .. threads : AllBound(w)

\* T calls of ioqueues_init_thread have returned
AllReturned == Cardinality({w \in Workers : pc[w] = "done"}) = threads
BoundAs(w, q, role, spec) == handles[w][q] = [role |-> role, spec |-> spec]

\* C16: once the header is populated and T calls of ioqueues_init_thread have
\* returned, the header holds thread_count = T, max_cores = T, normal
\* priority and zero latency thresholds, and its descriptor i is the carved
\* descriptor i, whose rx queue was bound as consumer and whose txpkt and
\* txcmd queues as producers by exactly one worker, the one that claimed i.
C16_HeaderMatchesBoundQueues ==
    (HdrComplete /\ AllReturned) =>
        /\ hdr.thread_count[1] = threads
        /\ hdr.sched_cfg[1] = [priority |-> SCHED_PRIORITY_NORMAL,
                               max_cores |-> threads,
                               congestion_latency_us |-> 0,
                               scaleout_latency_us |-> 0]
        /\ \A i \in 0 .. (threads - 1) :
              /\ hdr.threads[1][i] = iok_threads[i]
              /\ \A q \in {"rxq", "txpktq", "txcmdq"} :
                    hdr.threads[1][i][q].msg_count > 0
              /\ Cardinality({w \in Workers : ts[w] = i}) = 1
              /\ \A w \in Workers : ts[w] = i =>
                    /\ BoundAs(w, "rxq", "in", hdr.threads[1][i].rxq)
                    /\ BoundAs(w, "txpktq", "out", hdr.threads[1][i].txpktq)
                    /\ BoundAs(w, "txcmdq", "out", hdr.threads[1][i].txcmdq)

C16_Witness == HdrComplete /\ AllReturned /\ threads = MaxThreads

CallsOf(name) == {i \in 1 .. Len(calls) : calls[i][1] = name}
InitFailed == init_pc = "returned" /\ init_ret # <<0>>

\* C17: ioqueues_shm_setup runs identity generation, control mapping, ingress
\* mapping and carving in this order, each only after the earlier ones
\* succeeded; after an entropy failure no mapping is attempted, after a
\* control mapping failure no ingress mapping and no unmap; and when
\* ioqueues_init returns an error nothing is mapped and nothing is carved.
C17_SetupOrderAndUnwind ==
    /\ \A i \in CallsOf("map_control") :
          \E j \in CallsOf("read") : j < i /\ Len(calls[j][2]) = SIZEOF_ETH_ADDR
    /\ \A i \in CallsOf("map_ingress") :
          /\ \E j \in CallsOf("map_control") : j < i
          /\ tx_region.base # MAP_FAILED
    /\ Cardinality(CallsOf("map_control")) <= 1
    /\ Cardinality(CallsOf("map_ingress")) <= 1
    /\ CarvedSlots # {} =>
          /\ CallsOf("map_ingress") # {}
          /\ ControlMapped /\ IngressMapped
    /\ InitFailed =>
          /\ shm = {}
          /\ CarvedSlots = {}
          /\ netcfg_mac = <<>> =>
                CallsOf("map_control") = {} /\ CallsOf("map_ingress") = {}
          /\ tx_region.base = MAP_FAILED =>
                CallsOf("map_ingress") = {} /\ CallsOf("unmap") = {}

\* the control mapping failed
C17_Witness ==
    /\ InitFailed
    /\ tx_region.base = MAP_FAILED
    /\ CallsOf("map_control") # {}

\* the calculator's running total after its step 3: header and descriptors
\* rounded to a cache line, the 3*T rings, rounded up to a huge page
ControlTotal(T) ==
    RoundedUp(RoundedUp(SIZEOF_CONTROL_HDR + T * SIZEOF_THREAD_SPEC, CACHE_LINE_SIZE)
                  + T * (2 * RingSize(PACKET_QUEUE_MCOUNT)
                            + RingSize(COMMAND_QUEUE_MCOUNT)),
              PGSIZE_2MB)
PoolLen == MBUF_DEFAULT_LEN * PACKET_QUEUE_MCOUNT

\* C18: the carver's cursor agrees with the calculator: the transmit buffer
\* pool starts at the calculator's huge-page-rounded control total, lies
\* within the region, the next-free marker just past it is at an offset
\* <= calculate_shm_space(T), and the bounds assertion never trips.
C18_CarverMatchesCalculator ==
    /\ aborted # "ptr_to_shmptr"
    /\ InitDone =>
          LET pool == iok_tx_buf - tx_region.base IN
          /\ tx_region.base % PGSIZE_2MB = 0
          /\ pool = ControlTotal(threads)
          /\ iok_tx_len = PoolLen
          /\ 0 <= pool /\ pool + iok_tx_len <= tx_region.len
          /\ iok_next_free = pool + iok_tx_len
          /\ iok_next_free <= calculate_shm_space(threads)

C18_Witness ==
    /\ InitDone
    /\ threads = MaxLayoutThreads
    /\ iok_next_free = ControlTotal(threads) + PoolLen

\* the descriptor of queue n (1 rx, 2 txpkt, 3 txcmd) of thread i for thread
\* count T, as offsets computed from T, i and n alone
Capacity(n) == IF n = 3 THEN COMMAND_QUEUE_MCOUNT ELSE PACKET_QUEUE_MCOUNT
OffsetOfQueue(T, i, n) ==
    RoundedUp(SIZEOF_CONTROL_HDR + T * SIZEOF_THREAD_SPEC, CACHE_LINE_SIZE)
        + i * (2 * RingSize(PACKET_QUEUE_MCOUNT) + RingSize(COMMAND_QUEUE_MCOUNT))
        + (n - 1) * RingSize(PACKET_QUEUE_MCOUNT)
DescriptorOf(T, i, n) ==
    [msg_buf |-> OffsetOfQueue(T, i, n),
     wb |-> OffsetOfQueue(T, i, n)
               + RoundedUp(Capacity(n) * SIZEOF_LRPC_MSG, CACHE_LINE_SIZE),
     msg_count |-> Capacity(n)]
CarvedQueues ==
    {x \in ThreadSlots \X (1 .. 3) : iok_threads[x[1]][QueueNames[x[2]]].msg_count > 0}

\* C19: the carved descriptors and the next-free offset are the same at
\* every address the control region is mapped at: each is the value
\* determined by the thread count and the queue's position alone.
C19_DescriptorsIndependentOfBase ==
    /\ \A x \in CarvedQueues :
          iok_threads[x[1]][QueueNames[x[2]]] = DescriptorOf(threads, x[1], x[2])
    /\ InitDone =>
          /\ CarvedQueues = (0 .. (threads - 1)) \X (1 .. 3)
          /\ iok_next_free = ControlTotal(threads) + PoolLen

\* a finished carving at an address other than the lowest one
C19_Witness ==
    /\ InitDone
    /\ threads = MaxLayoutThreads
    /\ tx_region.base \in ControlBases
    /\ \E b \in ControlBases : b < tx_region.base

\* threads whose three queues are carved
FullyCarved == {i \in ThreadSlots : iok_threads[i].txcmdq.msg_count > 0}

\* C20 as stated: for every thread the receive and transmit-packet queues
\* are carved with a capacity strictly larger than that of the
\* transmit-command queue.
C20_PacketQueuesStrictlyLarger ==
    \A i \in FullyCarved :
        /\ iok_threads[i].rxq.msg_count > iok_threads[i].txcmdq.msg_count
        /\ iok_threads[i].txpktq.msg_count > iok_threads[i].txcmdq.msg_count

\* C20 as amended: for every thread the receive and transmit-packet queues
\* are carved with one fixed capacity that is not smaller than the capacity
\* of the transmit-command queue (the two are equal, 8192).
C20_PacketQueuesNotSmaller ==
    \A i \in FullyCarved :
        /\ iok_threads[i].rxq.msg_count = iok_threads[i].txpktq.msg_count
        /\ iok_threads[i].rxq.msg_count >= iok_threads[i].txcmdq.msg_count
        /\ iok_threads[i].rxq.msg_count = 8192
        /\ iok_threads[i].txcmdq.msg_count = 8192

C20_Witness ==
    /\ InitDone
    /\ FullyCarved = 0 .. (threads - 1)
    /\ threads = MaxLayoutThreads

====
